---- MODULE Spec2Model ----
(***************************************************************************)
(* The 8-puzzle core of HWSearch (src/src/App.tsx; src/unnamed/part_000    *)
(* holds the same core, lines 1-108 identical): manhattan, neighbors,      *)
(* inversions / isSolvable, shuffleSolvable and aStar.                     *)
(*                                                                         *)
(* A State of the program is a JavaScript array of 9 numbers indexed 0..8. *)
(* Here it is a tuple of 9 numbers; At(s, i) reads the cell at the         *)
(* program's (0-based) index i.                                            *)
(***************************************************************************)
EXTENDS Integers, Sequences, FiniteSets, TLC

\* ------------------------------------------------------------------ bounds

\* Solvable inputs of aStar: the configurations within MaxScramble legal
\* moves of GOAL.
MaxScramble == 10
\* Unsolvable inputs of aStar: the configurations within MaxOdd legal moves
\* of GOAL, with the tiles 1 and 2 exchanged.
MaxOdd == 1
\* Cap on the iterations of aStar's main loop followed in one run.
MaxIters == 200
\* Cap on the tile clicks that move a tile, over one life of the component.
MaxClicks == 2
\* Cap on the image loads started over one life of the component.
MaxLoads == 2

\* ------------------------------------------------------------- State model

GOAL == <<1, 2, 3, 4, 5, 6, 7, 8, 0>>

At(s, i) == s[i + 1]

\* Array.prototype.indexOf: the first index from i on holding v, or -1.
RECURSIVE indexOfFrom(_, _, _)
indexOfFrom(s, v, i) ==
  IF i >= Len(s) THEN -1
  ELSE IF At(s, i) = v THEN i
  ELSE indexOfFrom(s, v, i + 1)

indexOf(s, v) == indexOfFrom(s, v, 0)

pos(s, v) == indexOf(s, v)

abs(x) == IF x < 0 THEN -x ELSE x

\* The array s with the cells at indices i and j exchanged.
Swap(s, i, j) == [s EXCEPT ![i + 1] = At(s, j), ![j + 1] = At(s, i)]

RECURSIVE manhattanFrom(_, _)
manhattanFrom(s, v) ==
  IF v > 8 THEN 0
  ELSE LET i == pos(s, v)
           gi == v - 1
       IN abs((i \div 3) - (gi \div 3)) + abs((i % 3) - (gi % 3))
            + manhattanFrom(s, v + 1)

\* manhattan with every distance counted twice.
manhattanDoubled(s) == 2 * manhattanFrom(s, 1)

manhattan(s) == manhattanFrom(s, 1)

\* ---------------------------------------------------------- Move generator

\* deltas with its first entry mistyped as a diagonal.
deltasDiagonal == << <<1, 1>>, <<-1, 0>>, <<0, 1>>, <<0, -1>> >>

deltas == << <<1, 0>>, <<-1, 0>>, <<0, 1>>, <<0, -1>> >>

\* The pass with the column test off by one (nc > 1 for nc > 2).
neighborsPassNarrow(s, z, d) ==
  LET r == z \div 3
      c == z % 3
      nr == r + d[1]
      nc == c + d[2]
  IN IF nr < 0 \/ nr > 2 \/ nc < 0 \/ nc > 1
     THEN [input |-> s, pushed |-> <<>>]
     ELSE LET nz == nr * 3 + nc
              t == s
          IN [input |-> s, pushed |-> <<Swap(t, z, nz)>>]

\* The pass without s.slice(): t is s itself, and the exchange is made in
\* the argument.
neighborsPassInPlace(s, z, d) ==
  LET r == z \div 3
      c == z % 3
      nr == r + d[1]
      nc == c + d[2]
  IN IF nr < 0 \/ nr > 2 \/ nc < 0 \/ nc > 2
     THEN [input |-> s, pushed |-> <<>>]
     ELSE LET nz == nr * 3 + nc
          IN [input |-> Swap(s, z, nz), pushed |-> <<Swap(s, z, nz)>>]

\* One pass of the body of the for loop of neighbors over the array s with
\* the blank at z: the array s as the pass leaves it, and the array pushed to
\* out (<<>> where the pass is skipped by `continue`).
neighborsPass(s, z, d) ==
  LET r == z \div 3
      c == z % 3
      nr == r + d[1]
      nc == c + d[2]
  IN IF nr < 0 \/ nr > 2 \/ nc < 0 \/ nc > 2
     THEN [input |-> s, pushed |-> <<>>]
     ELSE LET nz == nr * 3 + nc
              t == s   \* s.slice(): a copy, so the exchange leaves s alone
          IN [input |-> s, pushed |-> <<Swap(t, z, nz)>>]

\* The whole call neighbors(s), from pass k of the loop on: the input array
\* as the call leaves it and the array out.
RECURSIVE neighborsLoop(_, _, _, _)
neighborsLoop(s, z, k, out) ==
  IF k > Len(deltas) THEN [input |-> s, out |-> out]
  ELSE LET p == neighborsPass(s, z, deltas[k])
       IN neighborsLoop(p.input, z, k + 1, out \o p.pushed)

neighborsCall(s) == neighborsLoop(s, pos(s, 0), 1, <<>>)

neighbors(s) == neighborsCall(s).out

\* --------------------------------------------------------------- identity

DigitChars == <<"0", "1", "2", "3", "4", "5", "6", "7", "8", "9">>

\* String(v) for a number 0..9.
NumberToString(v) == DigitChars[v + 1]

\* Number(t) for a token t, a sequence of digit characters.
RECURSIVE StringToNumber(_)
StringToNumber(t) ==
  IF t = <<>> THEN 0
  ELSE LET last == t[Len(t)]
           d == CHOOSE x \in 0..9 : DigitChars[x + 1] = last
       IN 10 * StringToNumber(SubSeq(t, 1, Len(t) - 1)) + d

\* s.join(","): a string is the sequence of its characters.
key(s) ==
  [k \in 1..(2 * Len(s) - 1) |->
     IF k % 2 = 1 THEN NumberToString(s[(k + 1) \div 2]) ELSE ","]

\* str.split(","): the tokens between the commas, from character k on, the
\* token being read in tok.
RECURSIVE splitFrom(_, _, _)
splitFrom(str, k, tok) ==
  IF k > Len(str) THEN <<tok>>
  ELSE IF str[k] = "," THEN <<tok>> \o splitFrom(str, k + 1, <<>>)
  ELSE splitFrom(str, k + 1, Append(tok, str[k]))

\* cur.split(",").map(Number)
parseKey(str) ==
  LET toks == splitFrom(str, 1, <<>>)
  IN [k \in 1..Len(toks) |-> StringToNumber(toks[k])]

\* ------------------------------------------------- Solvability classifier

\* inversions without its filter: the blank is counted as a tile.
filterNothing(s) == s

\* s.filter((x) => x !== 0)
RECURSIVE filterNonZero(_)
filterNonZero(s) ==
  IF s = <<>> THEN <<>>
  ELSE (IF Head(s) # 0 THEN <<Head(s)>> ELSE <<>>) \o filterNonZero(Tail(s))

\* The double loop of inversions over the filtered array a, from (i, j) on.
RECURSIVE inversionsFrom(_, _, _)
inversionsFrom(a, i, j) ==
  IF i >= Len(a) THEN 0
  ELSE IF j >= Len(a) THEN inversionsFrom(a, i + 1, i + 2)
  ELSE (IF At(a, i) > At(a, j) THEN 1 ELSE 0) + inversionsFrom(a, i, j + 1)

inversions(s) == inversionsFrom(filterNonZero(s), 0, 1)

isSolvable(s) == inversions(s) % 2 = 0

\* ------------------------------------------------------ Scramble generator

\* One pass of the Fisher-Yates loop of shuffleSolvable, j being
\* Math.floor(Math.random() * (i + 1)).
shufflePass(a, i, j) == Swap(a, i, j)

\* The values Math.floor(Math.random() * i) takes: i for i + 1.
drawRangeExclusive(i) == 0..(i - 1)

\* The values Math.floor(Math.random() * (i + 1)) takes, Math.random()
\* being any number of [0, 1).
drawRange(i) == 0..i

\* The repair exchanging the first two cells instead of the tiles 1 and 2.
parityFixFirstCells(a) ==
  IF ~isSolvable(a) THEN Swap(a, 0, 1) ELSE a

\* The parity repair that ends shuffleSolvable.
parityFix(a) ==
  IF ~isSolvable(a)
  THEN LET i == indexOf(a, 1)
           j == indexOf(a, 2)
       IN Swap(a, i, j)
  ELSE a

\* The Fisher-Yates loop from index i down, drawing j from draws in order.
RECURSIVE fisherYates(_, _, _)
fisherYates(a, i, draws) ==
  IF i > 0
  THEN fisherYates(shufflePass(a, i, Head(draws)), i - 1, Tail(draws))
  ELSE a

\* shuffleSolvable() when Math.random yields the draws given.
shuffleSolvableWith(draws) == parityFix(fisherYates(GOAL, Len(GOAL) - 1, draws))

\* ------------------------------------------------ Heuristic search: aStar

\* The values null and undefined, neither of which is a string.
null == <<"null">>
undefined == <<"undefined">>

\* JavaScript truthiness of a string, null or undefined.
truthy(x) == x # null /\ x # undefined /\ x # <<>>

\* Map.prototype.get, has and set; a Map is a function on its keys.
mapGet(m, k) == IF k \in DOMAIN m THEN m[k] ELSE undefined
mapHas(m, k) == k \in DOMAIN m
mapSet(m, k, v) == [x \in (DOMAIN m) \cup {k} |-> IF x = k THEN v ELSE m[x]]
emptyMap == [x \in {} |-> 0]

\* What a call of aStar returns: null, or a sequence of States.
retNull == [tag |-> "null", path |-> <<>>]
retPath(p) == [tag |-> "path", path |-> p]
retPending == [tag |-> "pending", path |-> <<>>]

\* popMin without its scan: mi stays 0, the open set is a queue.
popMinIndexNoScan(op) == 0

\* The index mi the scan of popMin ends with: the scan moves mi to i only
\* where open[i].f < open[mi].f, so mi ends at the first node of least f.
popMinIndex(op) ==
  CHOOSE mi \in 0..(Len(op) - 1) :
    /\ \A i \in 0..(mi - 1) : At(op, i).f > At(op, mi).f
    /\ \A i \in (mi + 1)..(Len(op) - 1) : At(op, i).f >= At(op, mi).f

\* open.splice(mi, 1): the array without its element at index mi.
splice1(op, mi) == SubSeq(op, 1, mi) \o SubSeq(op, mi + 2, Len(op))

Reverse(p) == [k \in 1..Len(p) |-> p[Len(p) + 1 - k]]

\* The reconstruction with `while (cur)` for `while (parent.get(cur))`: the
\* start is pushed too.
RECURSIVE reconstructToStart(_, _, _)
reconstructToStart(par, cur, path) ==
  IF truthy(cur)
  THEN reconstructToStart(par, mapGet(par, cur), Append(path, parseKey(cur)))
  ELSE Reverse(path)

\* The while loop of the path reconstruction, then path.reverse().
RECURSIVE reconstruct(_, _, _)
reconstruct(par, cur, path) ==
  IF truthy(mapGet(par, cur))
  THEN reconstruct(par, mapGet(par, cur), Append(path, parseKey(cur)))
  ELSE Reverse(path)

\* The loop with `ng = g` for `ng = g + 1`: the cost of the move is lost.
RECURSIVE relaxNoCost(_, _, _, _, _)
relaxNoCost(ns, k, g, s, st) ==
  IF k > Len(ns) THEN st
  ELSE LET n == ns[k]
           ng == g
           nk == key(n)
       IN IF ~mapHas(st.gbest, nk) \/ ng < mapGet(st.gbest, nk)
          THEN LET nf == ng + manhattan(n)
               IN relaxNoCost(ns, k + 1, g, s,
                        [open |-> Append(st.open, [f |-> nf, g |-> ng, s |-> n]),
                         parent |-> mapSet(st.parent, nk, key(s)),
                         gbest |-> mapSet(st.gbest, nk, ng),
                         result |-> st.result])
          ELSE relaxNoCost(ns, k + 1, g, s, st)

\* The loop with `gbest.set(nk, g)` for `gbest.set(nk, ng)`: gbest records
\* the cost of the node expanded, not that of the neighbor.
RECURSIVE relaxRecordsOwnCost(_, _, _, _, _)
relaxRecordsOwnCost(ns, k, g, s, st) ==
  IF k > Len(ns) THEN st
  ELSE LET n == ns[k]
           ng == g + 1
           nk == key(n)
       IN IF ~mapHas(st.gbest, nk) \/ ng < mapGet(st.gbest, nk)
          THEN LET nf == ng + manhattan(n)
               IN relaxRecordsOwnCost(ns, k + 1, g, s,
                        [open |-> Append(st.open, [f |-> nf, g |-> ng, s |-> n]),
                         parent |-> mapSet(st.parent, nk, key(s)),
                         gbest |-> mapSet(st.gbest, nk, g),
                         result |-> st.result])
          ELSE relaxRecordsOwnCost(ns, k + 1, g, s, st)

\* The loop with `ng <= gbest.get(nk)` for `ng < gbest.get(nk)`: a neighbor
\* is pushed again at the cost already recorded.
RECURSIVE relaxNonStrict(_, _, _, _, _)
relaxNonStrict(ns, k, g, s, st) ==
  IF k > Len(ns) THEN st
  ELSE LET n == ns[k]
           ng == g + 1
           nk == key(n)
       IN IF ~mapHas(st.gbest, nk) \/ ng <= mapGet(st.gbest, nk)
          THEN LET nf == ng + manhattan(n)
               IN relaxNonStrict(ns, k + 1, g, s,
                        [open |-> Append(st.open, [f |-> nf, g |-> ng, s |-> n]),
                         parent |-> mapSet(st.parent, nk, key(s)),
                         gbest |-> mapSet(st.gbest, nk, ng),
                         result |-> st.result])
          ELSE relaxNonStrict(ns, k + 1, g, s, st)

\* The for loop over the neighbors ns of the popped node (g, s), from its
\* k-th element on; st holds open, parent and gbest.
RECURSIVE relax(_, _, _, _, _)
relax(ns, k, g, s, st) ==
  IF k > Len(ns) THEN st
  ELSE LET n == ns[k]
           ng == g + 1
           nk == key(n)
       IN IF ~mapHas(st.gbest, nk) \/ ng < mapGet(st.gbest, nk)
          THEN LET nf == ng + manhattan(n)
               IN relax(ns, k + 1, g, s,
                        [open |-> Append(st.open, [f |-> nf, g |-> ng, s |-> n]),
                         parent |-> mapSet(st.parent, nk, key(s)),
                         gbest |-> mapSet(st.gbest, nk, ng),
                         result |-> st.result])
          ELSE relax(ns, k + 1, g, s, st)

\* aStar without its first line.
aStarEnterNoShortcut(st0) ==
  LET h0 == manhattan(st0)
  IN [open |-> <<[f |-> h0, g |-> 0, s |-> st0]>>,
      parent |-> mapSet(emptyMap, key(st0), null),
      gbest |-> mapSet(emptyMap, key(st0), 0),
      result |-> retPending]

\* aStar from its first line to the test of the while loop.
aStarEnter(st0) ==
  IF key(st0) = key(GOAL)
  THEN [open |-> <<>>, parent |-> emptyMap, gbest |-> emptyMap,
        result |-> retPath(<<>>)]
  ELSE LET h0 == manhattan(st0)
       IN [open |-> <<[f |-> h0, g |-> 0, s |-> st0]>>,
           parent |-> mapSet(emptyMap, key(st0), null),
           gbest |-> mapSet(emptyMap, key(st0), 0),
           result |-> retPending]

\* One test of `while (open.length)` and, where it passes, one pass of the
\* loop's body.
aStarIter(st) ==
  IF Len(st.open) = 0
  THEN [st EXCEPT !.result = retNull]
  ELSE LET mi == popMinIndex(st.open)
           node == At(st.open, mi)
           rest == [st EXCEPT !.open = splice1(st.open, mi)]
       IN IF key(node.s) = key(GOAL)
          THEN [rest EXCEPT !.result = retPath(reconstruct(st.parent, key(node.s), <<>>))]
          ELSE relax(neighbors(node.s), 1, node.g, node.s, rest)

\* --------------------------------------------- the move graph (reference)

Range(f) == {f[x] : x \in DOMAIN f}

\* The arrangements of the values 0..n, each once: n put at every place of
\* every arrangement of 0..n-1.
RECURSIVE Arrangements(_)
Arrangements(n) ==
  IF n < 0 THEN {<<>>}
  ELSE {SubSeq(p, 1, k - 1) \o <<n>> \o SubSeq(p, k, Len(p)) :
          p \in Arrangements(n - 1), k \in 1..(n + 1)}

\* The configurations: the 9! arrangements of 0..8.
Configurations(n) == Arrangements(n - 1)

\* The configurations whose cell 0 holds lead.
ConfigurationsLedBy(lead) ==
  LET rest(v) == IF v < lead THEN v ELSE v + 1
  IN {<<lead, rest(p[1]), rest(p[2]), rest(p[3]), rest(p[4]), rest(p[5]),
        rest(p[6]), rest(p[7]), rest(p[8])>> : p \in Arrangements(7)}

IsConfiguration(s) ==
  /\ DOMAIN s = 1..9
  /\ \A v \in 0..8 : Cardinality({k \in 1..9 : s[k] = v}) = 1

\* Cells i and j of the 3x3 grid are orthogonally adjacent.
Adjacent(i, j) ==
  \/ (i \div 3 = j \div 3 /\ abs((i % 3) - (j % 3)) = 1)
  \/ (i % 3 = j % 3 /\ abs((i \div 3) - (j \div 3)) = 1)

BlankOf(s) == CHOOSE i \in 0..8 : At(s, i) = 0


\* s with the blank slid to cell i.
Slide(s, i) ==
  [k \in 1..9 |->
     IF k = i + 1 THEN 0 ELSE IF k = BlankOf(s) + 1 THEN At(s, i) ELSE s[k]]

LegalSuccessors(s) == {Slide(s, i) : i \in {j \in 0..8 : Adjacent(BlankOf(s), j)}}

\* t is s after one legal move: the blank exchanged with an adjacent cell.
LegalMove(s, t) == t \in LegalSuccessors(s)

\* The configurations one legal move away from one of frontier.
LegalFrom(frontier) ==
  {Slide(p[1], p[2]) :
     p \in {q \in frontier \X (0..8) : Adjacent(BlankOf(q[1]), q[2])}}

\* The configurations within d legal moves of those of frontier.
RECURSIVE Ball(_, _, _)
Ball(frontier, seen, d) ==
  IF d = 0 \/ frontier = {} THEN seen
  ELSE LET nxt == {y \in LegalFrom(frontier) : y \notin seen}
       IN Ball(nxt, {y \in seen \cup nxt : TRUE}, d - 1)

\* The breadth-first distance from the configurations of frontier (at distance
\* d from the source) to GOAL; -1 where GOAL is out of reach.
RECURSIVE BfsToGoal(_, _, _)
BfsToGoal(frontier, seen, d) ==
  IF GOAL \in frontier THEN d
  ELSE IF frontier = {} THEN -1
  ELSE LET nxt == {y \in LegalFrom(frontier) : y \notin seen}
       IN BfsToGoal(nxt, {y \in seen \cup nxt : TRUE}, d + 1)

MinMoves(s) == BfsToGoal({s}, {s}, 0)

\* Some sequence of at most d legal moves leads from a to b: the moves being
\* reversible, one half of it starts at a and the other half at b.
Within(a, b, d) ==
  d >= 0 /\ Ball({a}, {a}, (d + 1) \div 2) \cap Ball({b}, {b}, d \div 2) # {}

\* d is the least number of legal moves that lead from a to b.
IsDistance(a, b, d) == Within(a, b, d) /\ ~Within(a, b, d - 1)

\* The number of inverted pairs of non-blank tiles of s.
InversionCount(s) ==
  Cardinality({p \in (1..9) \X (1..9) :
                 p[1] < p[2] /\ s[p[1]] # 0 /\ s[p[2]] # 0 /\ s[p[1]] > s[p[2]]})

EvenParity(s) == InversionCount(s) % 2 = 0

\* s with the tiles labeled 1 and 2 exchanged.
ExchangeOneTwo(s) ==
  [k \in 1..9 |-> IF s[k] = 1 THEN 2 ELSE IF s[k] = 2 THEN 1 ELSE s[k]]

SolvableStarts == Ball({GOAL}, {GOAL}, MaxScramble)
UnsolvableStarts == {ExchangeOneTwo(s) : s \in Ball({GOAL}, {GOAL}, MaxOdd)}
\* The instance of the concrete scenario of the specification.
ScenarioStart == <<8, 1, 2, 7, 0, 3, 6, 5, 4>>
\* Two starts whose runs pop a node above gbest's entry (once, and twice).
StalePopStarts == {<<1, 2, 3, 0, 8, 5, 6, 4, 7>>, <<1, 6, 2, 8, 3, 0, 4, 5, 7>>}
StartSet ==
  SolvableStarts \cup UnsolvableStarts \cup {ScenarioStart} \cup StalePopStarts

\* ------------------------------------------------------------------ state

VARIABLES
  pc,      \* where the call of aStar stands: "idle", "call", "loop", "done"
  start,   \* aStar's argument
  open,    \* aStar's open
  parent,  \* aStar's parent
  gbest,   \* aStar's gbest
  result,  \* what the call returned
  iters,   \* passes of the while loop made so far
  popped,  \* what popMin returned in each pass, with gbest's entry at that time
  shuffle, \* the call of shuffleSolvable: its position, a, i and the draws made
  nbr,     \* the call of neighbors: its position, its argument, its result
  cls,     \* the classification of a configuration by isSolvable
  app      \* the App component: its React state, timers and image loads

solveVars == <<pc, start, open, parent, gbest, result, iters, popped>>
vars == <<pc, start, open, parent, gbest, result, iters, popped, shuffle, nbr,
          cls, app>>

solveIdle ==
  /\ pc = "idle"
  /\ start = GOAL
  /\ open = <<>>
  /\ parent = emptyMap
  /\ gbest = emptyMap
  /\ result = retPending
  /\ iters = 0
  /\ popped = <<>>

shuffleIdle == shuffle = [pc |-> "idle"]
nbrIdle == nbr = [pc |-> "idle"]
clsIdle == cls = [pc |-> "idle"]
appIdle == app = [pc |-> "idle"]

\* ------------------------------------------------------- the run of aStar

SolveInit ==
  /\ pc = "call"
  /\ start \in StartSet
  /\ open = <<>>
  /\ parent = emptyMap
  /\ gbest = emptyMap
  /\ result = retPending
  /\ iters = 0
  /\ popped = <<>>
  /\ shuffleIdle /\ nbrIdle /\ clsIdle /\ appIdle

\* The call up to the first test of the while loop.
Enter ==
  /\ pc = "call"
  /\ LET st == aStarEnter(start)
     IN /\ open' = st.open
        /\ parent' = st.parent
        /\ gbest' = st.gbest
        /\ result' = st.result
        /\ pc' = IF st.result.tag = "pending" THEN "loop" ELSE "done"
  /\ UNCHANGED <<start, iters, popped, shuffle, nbr, cls, app>>

\* One pass of the while loop, or its exit.
Iterate ==
  /\ pc = "loop"
  /\ iters < MaxIters
  /\ LET st == aStarIter([open |-> open, parent |-> parent, gbest |-> gbest,
                          result |-> result])
     IN /\ open' = st.open
        /\ parent' = st.parent
        /\ gbest' = st.gbest
        /\ result' = st.result
        /\ pc' = IF st.result.tag = "pending" THEN "loop" ELSE "done"
  /\ iters' = iters + 1
  /\ popped' = IF Len(open) = 0 THEN popped
                ELSE LET node == At(open, popMinIndex(open))
                     IN Append(popped, [f |-> node.f, g |-> node.g, s |-> node.s,
                                        best |-> mapGet(gbest, key(node.s))])
  /\ UNCHANGED <<start, shuffle, nbr, cls, app>>

SolveNext == Enter \/ Iterate

Spec == SolveInit /\ [][SolveNext]_vars

\* ---------------------------------------------- the run of shuffleSolvable

ShuffleInit ==
  /\ shuffle = [pc |-> "call", a |-> <<>>, i |-> 0, draws |-> <<>>, shuffled |-> <<>>]
  /\ solveIdle /\ nbrIdle /\ clsIdle /\ appIdle

\* const a = GOAL.slice(); let i = a.length - 1
ShuffleBegin ==
  /\ shuffle.pc = "call"
  /\ shuffle' = [shuffle EXCEPT !.pc = "loop", !.a = GOAL, !.i = Len(GOAL) - 1]
  /\ UNCHANGED <<solveVars, nbr, cls, app>>

\* One pass of the loop: j is any value of Math.floor(Math.random() * (i + 1)).
ShuffleDraw ==
  /\ shuffle.pc = "loop"
  /\ shuffle.i > 0
  /\ \E j \in drawRange(shuffle.i) :
       shuffle' = [shuffle EXCEPT !.a = shufflePass(shuffle.a, shuffle.i, j),
                                  !.i = shuffle.i - 1,
                                  !.draws = Append(shuffle.draws, j)]
  /\ UNCHANGED <<solveVars, nbr, cls, app>>

\* The loop's exit, the parity repair and the return; shuffled keeps the
\* array as the loop left it.
ShuffleReturn ==
  /\ shuffle.pc = "loop"
  /\ ~(shuffle.i > 0)
  /\ shuffle' = [shuffle EXCEPT !.pc = "returned",
                                !.a = parityFix(shuffle.a),
                                !.shuffled = shuffle.a]
  /\ UNCHANGED <<solveVars, nbr, cls, app>>

ShuffleNext == ShuffleBegin \/ ShuffleDraw \/ ShuffleReturn

SpecShuffle == ShuffleInit /\ [][ShuffleNext]_vars

\* --------------------------------------------------- the call of neighbors

NeighborsInit ==
  /\ nbr \in {[pc |-> "call", arg |-> c, s |-> c, out |-> <<>>] : c \in Configurations(9)}
  /\ solveIdle /\ shuffleIdle /\ clsIdle /\ appIdle

\* The whole call: s is the argument array as the call leaves it.
NeighborsCall ==
  /\ nbr.pc = "call"
  /\ LET r == neighborsCall(nbr.s)
     IN nbr' = [nbr EXCEPT !.pc = "returned", !.s = r.input, !.out = r.out]
  /\ UNCHANGED <<solveVars, shuffle, cls, app>>

SpecNeighbors == NeighborsInit /\ [][NeighborsCall]_vars

\* ------------------------------------- isSolvable against the move graph

\* The configurations of S filed under their first three cells.
ByLeadingCells(S) ==
  [a \in 0..8 |->
     LET Sa == {c \in S : c[1] = a}
     IN [b \in 0..8 |->
           LET Sab == {c \in Sa : c[2] = b}
           IN [d \in 0..8 |-> {c \in Sab : c[3] = d}]]]

Filed(c, index) == c \in index[c[1]][c[2]][c[3]]

\* The configurations that calls of neighbors link to those of seen, in
\* layers: layer k holds those first met after k - 1 calls in a row; frontier
\* being the ones of seen not yet passed to neighbors.
RECURSIVE neighborsLayers(_, _, _)
neighborsLayers(frontier, seen, layers) ==
  IF frontier = {} THEN layers
  ELSE LET lists == {neighbors(x) : x \in frontier}
           nxt == {y \in {ns[IF k <= Len(ns) THEN k ELSE 1] :
                             ns \in lists, k \in 1..4} : y \notin seen}
       IN neighborsLayers(nxt, {y \in seen \cup nxt : TRUE},
                          Append(layers, ByLeadingCells(frontier)))

\* The number of neighbors calls in a row that link c to GOAL; -1 where none do.
LayerOf(c, layers) ==
  IF \E k \in 1..Len(layers) : Filed(c, layers[k])
  THEN (CHOOSE k \in 1..Len(layers) : Filed(c, layers[k])) - 1
  ELSE -1

ClassifyInit ==
  /\ cls = [pc |-> "search", seen |-> <<>>, c |-> GOAL, solvable |-> FALSE,
            reachable |-> FALSE, dist |-> -1]
  /\ solveIdle /\ shuffleIdle /\ nbrIdle /\ appIdle

\* seen becomes the layers of the configurations that neighbors links to GOAL.
Reach ==
  /\ cls.pc = "search"
  /\ cls' = [cls EXCEPT !.pc = "closed",
                         !.seen = neighborsLayers({GOAL}, {GOAL}, <<>>)]
  /\ UNCHANGED <<solveVars, shuffle, nbr, app>>

\* isSolvable applied to any configuration c; reachable tells whether
\* neighbors links c to GOAL, dist in how many calls.
Classify(lead) ==
  /\ cls.pc = "closed"
  /\ \E c \in ConfigurationsLedBy(lead) :
       LET d == LayerOf(c, cls.seen)
       IN cls' = [pc |-> "classified", seen |-> <<>>, c |-> c,
                  solvable |-> isSolvable(c), reachable |-> d >= 0, dist |-> d]
  /\ UNCHANGED <<solveVars, shuffle, nbr, app>>

ClassifyNext == Reach \/ \E lead \in 0..8 : Classify(lead)

SpecSolvable == ClassifyInit /\ [][ClassifyNext]_vars

\* ------------------------------------------------------ the App component

\* aStar as doSolve calls it: the loop run to its return (at most fuel passes).
RECURSIVE aStarLoop(_, _)
aStarLoop(st, fuel) ==
  IF st.result.tag # "pending" \/ fuel = 0 THEN st
  ELSE aStarLoop(aStarIter(st), fuel - 1)

aStar(s) == aStarLoop(aStarEnter(s), MaxIters).result

\* tryMove with the test on the index distance, |z - i| being 1 or 3: cells
\* 2 and 3, and 5 and 6, pass for adjacent.
tryMoveByIndex(state, busy, i) ==
  IF busy THEN state
  ELSE LET z == indexOf(state, 0)
       IN IF abs(z - i) # 1 /\ abs(z - i) # 3 THEN state ELSE Swap(state, z, i)

\* tryMove(i): the value of `state` after a click on cell i.
tryMove(state, busy, i) ==
  IF busy THEN state
  ELSE LET z == indexOf(state, 0)
           zr == z \div 3
           zc == z % 3
           ir == i \div 3
           ic == i % 3
       IN IF abs(zr - ir) + abs(zc - ic) # 1 THEN state ELSE Swap(state, z, i)

\* What Math.random yields in the calls of shuffleSolvable made by doShuffle:
\* draws after which it returns an array 0, 2, 3 (the parity repaired) and
\* 4 moves from GOAL.
ShuffleDraws ==
  { <<8, 7, 6, 5, 4, 3, 2, 1>>, <<5, 7, 6, 4, 4, 3, 2, 1>>,
    <<5, 7, 6, 2, 4, 3, 0, 0>>, <<5, 7, 6, 2, 4, 3, 1, 0>> }

noPlay == [active |-> FALSE, start |-> GOAL, path |-> <<>>, pos |-> 0]

\* The component after its first render: useState's initial values, the
\* effect of the first render still to run. tiles is 0 for null, else the
\* number of the image load whose slices it holds.
AppInit ==
  /\ app = [pc |-> "mounted", tiles |-> 0, state |-> GOAL, busy |-> FALSE,
            effectDue |-> TRUE, loads |-> {}, started |-> 0, play |-> noPlay,
            solved |-> "none", clicks |-> 0]
  /\ solveIdle /\ shuffleIdle /\ nbrIdle /\ clsIdle

AppReady == app.pc = "mounted" /\ ~app.effectDue

AppKeep == UNCHANGED <<solveVars, shuffle, nbr, cls>>

\* The effect on [tiles] of src/src/App.tsx.
Effect ==
  /\ app.pc = "mounted" /\ app.effectDue
  /\ app' = [app EXCEPT !.effectDue = FALSE,
                         !.state = IF app.tiles = 0 THEN GOAL ELSE @]
  /\ AppKeep

\* new Image() with onload set and src assigned: a load in flight, started
\* by origin.
startLoad(a, origin) ==
  [a EXCEPT !.loads = @ \cup {[id |-> a.started + 1, origin |-> origin]},
            !.started = @ + 1]

\* The effect on [tiles] of src/unnamed/part_000: the block that calls
\* loadRandomPhoto stands after the if statement, not in it.
EffectPhoto ==
  /\ app.pc = "mounted" /\ app.effectDue
  /\ app.started < MaxLoads
  /\ app' = startLoad([app EXCEPT !.effectDue = FALSE,
                                   !.state = IF app.tiles = 0 THEN GOAL ELSE @],
                       IF app.tiles = 0 THEN "mount" ELSE "effect")
  /\ AppKeep

\* onFile with a file chosen.
OnFile ==
  /\ AppReady
  /\ app.started < MaxLoads
  /\ app' = startLoad(app, "file")
  /\ AppKeep

\* The Random photo button of part_000 (disabled while busy).
RandomPhoto ==
  /\ AppReady
  /\ ~app.busy
  /\ app.started < MaxLoads
  /\ app' = startLoad(app, "button")
  /\ AppKeep

\* im.onload: sliceImage, which ends with setTiles of a new array.
ImageLoaded ==
  /\ AppReady
  /\ \E l \in app.loads :
       app' = [app EXCEPT !.loads = @ \ {l}, !.tiles = l.id, !.effectDue = TRUE]
  /\ AppKeep

\* The image fails to load: onload is never called.
ImageFailed ==
  /\ AppReady
  /\ \E l \in app.loads : app' = [app EXCEPT !.loads = @ \ {l}]
  /\ AppKeep

\* The Shuffle button (disabled while tiles is null).
DoShuffle ==
  /\ AppReady
  /\ app.tiles # 0
  /\ \E draws \in ShuffleDraws :
       app' = [app EXCEPT !.state = shuffleSolvableWith(draws)]
  /\ AppKeep

\* The Reset button (disabled while tiles is null or busy).
Reset ==
  /\ AppReady
  /\ app.tiles # 0 /\ ~app.busy
  /\ app' = [app EXCEPT !.state = GOAL]
  /\ AppKeep

\* A click on cell i of the grid.
TryMove(i) ==
  /\ AppReady
  /\ app.clicks < MaxClicks
  /\ LET s == tryMove(app.state, app.busy, i)
     IN app' = [app EXCEPT !.state = s,
                           !.clicks = IF s # app.state THEN @ + 1 ELSE @]
  /\ AppKeep

\* The Solve button (disabled while tiles is null or busy): doSolve up to
\* its first await, or to its end where the path is null or empty.
DoSolve ==
  /\ AppReady
  /\ app.tiles # 0 /\ ~app.busy
  /\ LET r == aStar(app.state)
     IN /\ r.tag # "pending"
        /\ app' = IF r.tag = "path" /\ r.path # <<>>
                  THEN [app EXCEPT !.busy = TRUE, !.solved = "path",
                                   !.state = r.path[1],
                                   !.play = [active |-> TRUE, start |-> app.state,
                                             path |-> r.path, pos |-> 1]]
                  ELSE [app EXCEPT !.solved = r.tag]
  /\ AppKeep

\* The timer of doSolve's await fires: the next pass of the for loop, or
\* after the last one setBusy(false).
Playback ==
  /\ AppReady
  /\ app.play.active
  /\ app' = IF app.play.pos < Len(app.play.path)
            THEN [app EXCEPT !.state = app.play.path[app.play.pos + 1],
                             !.play.pos = @ + 1]
            ELSE [app EXCEPT !.busy = FALSE, !.play.active = FALSE]
  /\ AppKeep

AppNext ==
  \/ Effect \/ OnFile \/ ImageLoaded \/ ImageFailed \/ DoShuffle \/ Reset
  \/ (\E i \in 0..8 : TryMove(i)) \/ DoSolve \/ Playback

\* src/src/App.tsx.
SpecApp == AppInit /\ [][AppNext]_vars

PhotoNext ==
  \/ EffectPhoto \/ OnFile \/ RandomPhoto \/ ImageLoaded \/ ImageFailed
  \/ DoShuffle \/ Reset \/ (\E i \in 0..8 : TryMove(i)) \/ DoSolve \/ Playback

\* src/unnamed/part_000.
SpecPhoto == AppInit /\ [][PhotoNext]_vars

\* ----------------------------------------------------- properties of aStar

Returned == pc = "done"

\* C1: for every solvable configuration (even inversion count of the
\* non-blank tiles) aStar returns a sequence whose length is the minimum
\* number of legal moves from it to GOAL, the breadth-first distance in the
\* move graph; no run from a solvable start is cut short by MaxIters.
C1_OptimalLength ==
  EvenParity(start) =>
    /\ (pc = "loop" => iters < MaxIters)
    /\ (Returned =>
          /\ result.tag = "path"
          /\ Len(result.path) = MinMoves(start))

C1_Witness ==
  /\ Returned
  /\ EvenParity(start)
  /\ start # ScenarioStart
  /\ result.tag = "path"
  /\ Len(result.path) >= 9
  /\ iters > Len(result.path)

\* C2: a non-empty sequence returned by aStar excludes the start and ends
\* with GOAL: its first element is a neighbor of the start, every later
\* element is a neighbor of the one before it, and its last element is GOAL.
C2_PathIsChain ==
  (Returned /\ result.tag = "path" /\ result.path # <<>>) =>
    LET P == result.path
    IN /\ P[1] \in Range(neighbors(start))
       /\ \A k \in 1..(Len(P) - 1) : P[k + 1] \in Range(neighbors(P[k]))
       /\ P[Len(P)] = GOAL
       /\ \A k \in 1..Len(P) : P[k] # start

C2_Witness ==
  /\ Returned
  /\ result.tag = "path"
  /\ Len(result.path) >= 5
  /\ result.path[Len(result.path)] = GOAL

C9_GoalReturnsEmpty ==
  start = GOAL =>
    /\ pc \in {"call", "done"}
    /\ (Returned =>
          /\ result = retPath(<<>>)
          /\ iters = 0
          /\ open = <<>>
          /\ gbest = emptyMap)

C9_Witness ==
  /\ start = GOAL
  /\ Returned
  /\ result.tag = "path"
  /\ result.path = <<>>

\* C10 as stated: from [8,1,2,7,0,3,6,5,4] aStar returns 26 moves and 26 is
\* the minimum.
C10_TwentySixMoves ==
  (Returned /\ start = ScenarioStart) =>
    /\ result.tag = "path"
    /\ Len(result.path) = 26
    /\ MinMoves(start) = 26

\* C10 amended: from [8,1,2,7,0,3,6,5,4] aStar returns a solution of exactly
\* 18 moves, and 18 is the minimum number of moves from that start to GOAL.
C10_EighteenMoves ==
  start = ScenarioStart =>
    /\ (pc = "loop" => iters < MaxIters)
    /\ (Returned =>
          /\ result.tag = "path"
          /\ Len(result.path) = 18
          /\ result.path[18] = GOAL
          /\ MinMoves(start) = 18)

C10_Witness ==
  /\ Returned
  /\ start = ScenarioStart
  /\ result.tag = "path"
  /\ iters > 100

\* --------------------------------------------- properties of isSolvable

\* C4: for every configuration c, isSolvable(c) holds exactly when the
\* inversion count of the non-blank tiles of c is even, and exactly when
\* legal moves link c and GOAL; the moves neighbors yields can be taken
\* back, so that GOAL is reached from c where c is reached from GOAL.
C4_SolvableIffReachable ==
  cls.pc = "classified" =>
    /\ cls.solvable <=> EvenParity(cls.c)
    /\ cls.solvable <=> cls.reachable
    /\ Range(neighbors(cls.c)) = LegalSuccessors(cls.c)
    /\ \A n \in Range(neighbors(cls.c)) : cls.c \in Range(neighbors(n))

C4_Witness ==
  /\ cls.pc = "classified"
  /\ cls.c = <<8, 7, 6, 5, 4, 3, 2, 1, 0>>
  /\ cls.solvable
  /\ cls.reachable

\* ----------------------------------------- properties of shuffleSolvable

\* C5: whatever the draws, shuffleSolvable returns a configuration (length
\* 9, each of 0..8 once) that isSolvable accepts; where the shuffled array
\* is unsolvable, the result is that array with the tiles 1 and 2 exchanged:
\* two cells differ and the blank stays where it was.
C5_ShuffleSolvable ==
  shuffle.pc = "returned" =>
    /\ IsConfiguration(shuffle.a)
    /\ isSolvable(shuffle.a)
    /\ EvenParity(shuffle.a)
    /\ IsConfiguration(shuffle.shuffled)
    /\ EvenParity(shuffle.shuffled) => shuffle.a = shuffle.shuffled
    /\ ~EvenParity(shuffle.shuffled) =>
         /\ shuffle.a = ExchangeOneTwo(shuffle.shuffled)
         /\ Cardinality({k \in 1..9 : shuffle.a[k] # shuffle.shuffled[k]}) = 2
         /\ BlankOf(shuffle.a) = BlankOf(shuffle.shuffled)

C5_Witness ==
  /\ shuffle.pc = "returned"
  /\ ~EvenParity(shuffle.shuffled)
  /\ shuffle.a # shuffle.shuffled
  /\ isSolvable(shuffle.a)

\* The draws that make the Fisher-Yates loop turn a (with the cells above i
\* already as in p) into p: at pass i the value p[i] is fetched from where
\* it lies.
RECURSIVE DrawsFrom(_, _, _)
DrawsFrom(p, a, i) ==
  IF i > 0
  THEN LET j == CHOOSE x \in 0..8 : At(a, x) = At(p, i)
       IN <<j>> \o DrawsFrom(p, Swap(a, i, j), i - 1)
  ELSE <<>>

DrawsFor(p) == DrawsFrom(p, GOAL, 8)

\* d is one of the 9! draw sequences: j in 0..i for i = 8 down to 1.
IsDrawSequence(d) ==
  /\ Len(d) = 8
  /\ \A k \in 1..8 : d[k] \in drawRange(9 - k)

\* C6: every solvable configuration, GOAL included, is the output of
\* exactly two of the 9! draw sequences: the one that shuffles GOAL into it
\* and the one that shuffles GOAL into it with the tiles 1 and 2 exchanged.
\* Both are draw sequences, they differ, both yield it, and no run yields it
\* from any other.
C6_TwoDrawSequences ==
  /\ shuffle.pc = "returned" =>
       /\ shuffle.a = shuffleSolvableWith(shuffle.draws)
       /\ IsDrawSequence(shuffle.draws)
       /\ shuffle.draws \in {DrawsFor(shuffle.a), DrawsFor(ExchangeOneTwo(shuffle.a))}
  /\ shuffle.pc = "call" =>
       \A c \in Configurations(9) :
         EvenParity(c) =>
           LET d1 == DrawsFor(c)
               d2 == DrawsFor(ExchangeOneTwo(c))
           IN /\ d1 # d2
              /\ IsDrawSequence(d1) /\ shuffleSolvableWith(d1) = c
              /\ IsDrawSequence(d2) /\ shuffleSolvableWith(d2) = c

C6_Witness ==
  /\ shuffle.pc = "returned"
  /\ shuffle.a = GOAL
  /\ shuffle.shuffled # GOAL
  /\ shuffle.draws = DrawsFor(ExchangeOneTwo(GOAL))

\* ------------------------------------------------ properties of neighbors

\* C7: neighbors returns 2 configurations with the blank at index 0, 2, 6
\* or 8, 3 with the blank at 1, 3, 5 or 7 and 4 with the blank at 4; each is
\* a configuration and is the argument with the blank exchanged with one
\* orthogonally adjacent cell.
C7_NeighborCount ==
  nbr.pc = "returned" =>
    LET z == BlankOf(nbr.arg)
    IN /\ z \in {0, 2, 6, 8} => Len(nbr.out) = 2
       /\ z \in {1, 3, 5, 7} => Len(nbr.out) = 3
       /\ z = 4 => Len(nbr.out) = 4
       /\ \A k \in 1..Len(nbr.out) :
            /\ IsConfiguration(nbr.out[k])
            /\ LegalMove(nbr.arg, nbr.out[k])
            /\ Cardinality({x \in 1..9 : nbr.out[k][x] # nbr.arg[x]}) = 2

C7_Witness ==
  /\ nbr.pc = "returned"
  /\ BlankOf(nbr.arg) = 4
  /\ Len(nbr.out) = 4

\* C8: neighbors leaves its argument as it was, and the configurations it
\* returns in one call are pairwise distinct.
C8_InputKeptNoDuplicates ==
  nbr.pc = "returned" =>
    /\ nbr.s = nbr.arg
    /\ \A j, k \in 1..Len(nbr.out) : j # k => nbr.out[j] # nbr.out[k]

C8_Witness ==
  /\ nbr.pc = "returned"
  /\ nbr.s = nbr.arg
  /\ Len(nbr.out) = 3
  /\ nbr.out[1] # nbr.out[2]

\* ------------------------------------------------- properties of manhattan

\* C14: the heuristic is consistent and admissible: manhattan(GOAL) = 0; for
\* every configuration c and every element n of neighbors(c), manhattan(n) and
\* manhattan(c) differ by at most 1; and for every solvable c, manhattan(c) is
\* at most the least number of moves that lead from GOAL to c (which, moves
\* being reversible, is the least number from c to GOAL).
C14_ManhattanConsistentAdmissible ==
  /\ manhattan(GOAL) = 0
  /\ cls.pc = "classified" =>
       /\ \A n \in Range(neighbors(cls.c)) :
            abs(manhattan(n) - manhattan(cls.c)) <= 1
       /\ cls.solvable => (cls.dist >= 0 /\ manhattan(cls.c) <= cls.dist)

C14_Witness ==
  /\ cls.pc = "classified"
  /\ cls.c = ScenarioStart
  /\ cls.solvable
  /\ manhattan(cls.c) = 14
  /\ cls.dist = 18

\* ------------------------------------------- properties of aStar's passes

LastPopped == popped[Len(popped)]

\* C16: in every pass popMin removes from open a node whose f is least among
\* the nodes open holds at that moment (the rest of open keeps its order), and
\* the f of the node removed is at least the f of the node removed in the
\* pass before.
C16_PopMinNonDecreasing ==
  [][popped' # popped =>
       LET node == popped'[Len(popped')]
       IN /\ Len(popped') = Len(popped) + 1
          /\ \E mi \in 0..(Len(open) - 1) :
               /\ At(open, mi) = [f |-> node.f, g |-> node.g, s |-> node.s]
               /\ SubSeq(open', 1, Len(open) - 1) = splice1(open, mi)
          /\ \A i \in 0..(Len(open) - 1) : node.f <= At(open, i).f
          /\ popped # <<>> => LastPopped.f <= node.f]_vars

C16_Witness ==
  /\ Len(popped) >= 3
  /\ popped[1].f < LastPopped.f
  /\ Len(open) >= 2
  /\ \E i \in 1..Len(open) : open[i].f > LastPopped.f

\* The nodes pushed on open by the pass just made.
Pushed == SubSeq(open', Len(open), Len(open'))

\* C15: once popMin has returned a configuration with g equal to gbest's entry
\* for it, and the pass has expanded it, the entry is final: in every later
\* state gbest still holds that g for it, that g is the least number of moves
\* from the start to it, and no later pass pushes it on open.
C15_ExpandedIsFinal ==
  [][popped' # popped =>
       LET node == popped'[Len(popped')]
       IN /\ node.g = node.best => IsDistance(start, node.s, node.g)
          /\ \A k \in 1..Len(popped') :
               popped'[k].g = popped'[k].best =>
                 /\ mapGet(gbest', key(popped'[k].s)) = popped'[k].g
                 /\ \A i \in 1..Len(Pushed) : Pushed[i].s # popped'[k].s]_vars

C15_Witness ==
  /\ Len(popped) >= 10
  /\ \E k \in 1..Len(popped) :
       /\ popped[k].g = popped[k].best
       /\ popped[k].g >= 3
       /\ \E i \in 1..Len(open) : open[i].s = popped[k].s /\ open[i].g > popped[k].g

\* C17: when popMin returns a node whose g is greater than gbest's entry for
\* its configuration, a node of that configuration with g equal to the entry
\* has been returned by an earlier pass, and the pass changes neither gbest
\* nor parent and pushes nothing on open.
C17_StaleIgnored ==
  [][popped' # popped =>
       LET node == popped'[Len(popped')]
       IN node.g > node.best =>
            /\ \E k \in 1..Len(popped) :
                 /\ popped[k].s = node.s
                 /\ popped[k].g = node.best
                 /\ popped[k].best = node.best
            /\ gbest' = gbest
            /\ parent' = parent
            /\ Len(open') = Len(open) - 1
            /\ Pushed = <<>>]_vars

C17_Witness ==
  /\ popped # <<>>
  /\ LastPopped.g > LastPopped.best
  /\ pc = "loop"

\* The number of configurations of one parity: 9!/2.
ClassSize == (9 * 8 * 7 * 6 * 5 * 4 * 3 * 2) \div 2

ClickAgrees(S) ==
  LET ns == Range(neighbors(S))
      z == indexOf(S, 0)
  IN /\ \A i \in 0..8 :
          IF Swap(S, z, i) \in ns
          THEN tryMove(S, FALSE, i) = Swap(S, z, i)
          ELSE tryMove(S, FALSE, i) = S
     /\ {tryMove(S, FALSE, i) : i \in 0..8} \ {S} = ns

\* C12: tryMove agrees with neighbors. For every configuration S (all 9! of
\* them, and those the component reaches) and every cell i, busy being false,
\* tryMove(i) replaces S by S with the blank and cell i exchanged if and only
\* if that is an element of neighbors(S), and else leaves S as it is; the
\* configurations one click leads to are the elements of neighbors(S).
C12_TryMoveIsNeighbors ==
  /\ (app.pc = "mounted" /\ app.started = 0 /\ app.effectDue) =>
       \A S \in Configurations(9) : ClickAgrees(S)
  /\ app.pc = "mounted" => ClickAgrees(app.state)

C12_Witness ==
  /\ app.pc = "mounted"
  /\ app.clicks = 2
  /\ ~app.busy
  /\ app.state = <<1, 2, 3, 4, 5, 6, 0, 7, 8>>

\* C18: whatever the buttons pressed, cells clicked, images loaded and timers
\* fired, `state` is a permutation of 0..8 whose non-blank tiles have an even
\* number of inversions, and the call of aStar in doSolve has never returned
\* null.
C18_StateStaysSolvable ==
  app.pc = "mounted" =>
    /\ IsConfiguration(app.state)
    /\ EvenParity(app.state)
    /\ app.solved # "null"
    /\ \A k \in 1..Len(app.play.path) : EvenParity(app.play.path[k])

C18_Witness ==
  /\ app.pc = "mounted"
  /\ app.solved = "path"
  /\ app.busy
  /\ app.clicks = 2
  /\ app.play.start = <<4, 1, 2, 7, 5, 3, 0, 8, 6>>
  /\ Len(app.play.path) = 6
  /\ app.play.pos = 2

\* C19: playback is exclusive. While busy is true one playback is running and
\* `state` changes only from one element of the returned path to the next, one
\* legal move apart (the first element being one legal move from the start);
\* and `state` is GOAL when busy is set back to false.
C19_PlaybackExclusive ==
  [][app.pc = "mounted" =>
       /\ (~app.busy /\ app'.busy) =>
            /\ app'.play.active /\ app'.play.pos = 1
            /\ app'.state = app'.play.path[1]
            /\ LegalMove(app.state, app'.state)
       /\ app.busy =>
            /\ app.play.active
            /\ app'.state # app.state =>
                 /\ app.play.pos < Len(app.play.path)
                 /\ app.state = app.play.path[app.play.pos]
                 /\ app'.state = app.play.path[app.play.pos + 1]
                 /\ LegalMove(app.state, app'.state)
            /\ ~app'.busy => app'.state = GOAL]_vars

UserOrMount == {"mount", "file", "button"}

\* C20: image loading quiesces. A load is started only by the effect of the
\* first render, by the choice of a file or by the Random photo button; tiles
\* changes only to the slices of such a load; and the effect on [tiles]
\* leaves `state` as it is once tiles are loaded.
C20_LoadsQuiesce ==
  [][app.pc = "mounted" =>
       /\ \A l \in app'.loads \ app.loads : l.origin \in UserOrMount
       /\ app'.tiles # app.tiles =>
            \E l \in app.loads : l.id = app'.tiles /\ l.origin \in UserOrMount
       /\ (app.effectDue /\ app.tiles # 0) => app'.state = app.state]_vars
====
